---- MODULE Spec2Model ----
(***************************************************************************)
(* gover / vcs.go: driving the git binary to create a checkout and to pin  *)
(* it to a version.                                                        *)
(*                                                                         *)
(* Go strings are modelled as sequences of one-character strings, so that  *)
(* prefix tests, slicing, whitespace splitting and placeholder expansion   *)
(* are computed character by character as the code computes them.          *)
(***************************************************************************)
EXTENDS Integers, Sequences, FiniteSets, TLC

VARIABLES
    pc,         \* position of the caller: "idle", "create_checkout", "returned",
                \* and "start"/"done" for the pure-function specifications
    call,       \* the create/checkout call in progress or last returned
    log,        \* commands handed to run1 during that call, in order
    ret,        \* error value returned by that call
    tree,       \* per directory: what is on disk there
    access,     \* per directory: whether its entries can be stat'ed
    existsRes,  \* result of the last exists() query
    input,      \* argument of the pure function applied (pure specifications)
    output      \* its result

vars == <<pc, call, log, ret, tree, access, existsRes, input, output>>

-----------------------------------------------------------------------------
(* String constants of vcs.go *)

S_sha == <<"s","h","a",":">>
S_master == <<"m","a","s","t","e","r">>
S_dot == <<".">>
S_dir == <<"d","i","r">>
S_repo == <<"r","e","p","o">>
S_branch == <<"b","r","a","n","c","h">>
S_tag == <<"t","a","g">>
S_version == <<"v","e","r","s","i","o","n">>
S_clone == <<"c","l","o","n","e">>
S_checkout == <<"c","h","e","c","k","o","u","t">>

vcsGit ==
    [ name |-> <<"G","i","t">>,
      cmd  |-> <<"g","i","t">>,
      meta |-> <<".","g","i","t">>,
      createCmd   |-> S_clone \o <<" ">> \o <<"{">> \o S_repo \o <<"}">> \o <<" ">>
                      \o <<"{">> \o S_dir \o <<"}">> \o <<" ","-","b"," ">>
                      \o <<"{">> \o S_branch \o <<"}">>,
      downloadCmd |-> S_checkout \o <<" ","-","f"," ","t","a","g","s","/">>
                      \o <<"{">> \o S_tag \o <<"}">>,
      checkoutCmd |-> S_checkout \o <<" ">> \o <<"{">> \o S_version \o <<"}">> ]

vcsList == <<vcsGit>>

\* vcsByCmd: linear scan; <<>> stands for the nil result.
vcsByCmd(cmd) ==
    LET hits == {i \in 1..Len(vcsList) : vcsList[i].cmd = cmd}
    IN IF hits = {} THEN <<>>
       ELSE <<vcsList[CHOOSE i \in hits : \A j \in hits : i <= j]>>

getVcsByUrl(url) == vcsGit

-----------------------------------------------------------------------------
(* parseVersion *)

\* strings.HasPrefix(s, prefix): len(s) >= len(prefix) && s[:len(prefix)] == prefix
HasPrefix(s, prefix) ==
    /\ Len(s) >= Len(prefix)
    /\ SubSeq(s, 1, Len(prefix)) = prefix

\* version[4:] keeps the bytes from index 4 (0-based) on; the mutant keeps one more.
parseVersionOffByOne(version) ==
    IF HasPrefix(version, S_sha)
    THEN [tag |-> S_master, commit |-> SubSeq(version, 4, Len(version))]
    ELSE [tag |-> version, commit |-> <<>>]

parseVersion(version) ==
    IF HasPrefix(version, S_sha)
    THEN [tag |-> S_master, commit |-> SubSeq(version, 5, Len(version))]
    ELSE [tag |-> version, commit |-> <<>>]

-----------------------------------------------------------------------------
(* run1: argument construction *)

\* unicode.IsSpace on the characters used here
IsSpace(c) == c \in {" ", "\t", "\n"}

\* strings.Fields: split around each run of white space, no empty fields.
RECURSIVE FieldsFrom(_, _, _, _)
FieldsFrom(s, i, cur, acc) ==
    IF i > Len(s)
    THEN IF cur = <<>> THEN acc ELSE Append(acc, cur)
    ELSE IF IsSpace(s[i])
         THEN FieldsFrom(s, i + 1, <<>>, IF cur = <<>> THEN acc ELSE Append(acc, cur))
         ELSE FieldsFrom(s, i + 1, Append(cur, s[i]), acc)

Fields(s) == FieldsFrom(s, 1, <<>>, <<>>)

\* The loop m[keyval[i]] = keyval[i+1] for i = 0, 2, ...: a later pair with the
\* same key overwrites an earlier one.  Defined for even-length keyval (an
\* odd length makes keyval[i+1] index out of range).
keyvalMap(keyval) ==
    LET idx == {i \in 1..Len(keyval) : i % 2 = 1 /\ i + 1 <= Len(keyval)}
        keys == {keyval[i] : i \in idx}
    IN [k \in keys |->
          keyval[(CHOOSE i \in idx :
                     /\ keyval[i] = k
                     /\ \A j \in idx : keyval[j] = k => j <= i) + 1]]

\* The text "{key}".
Placeholder(k) == <<"{">> \o k \o <<"}">>

\* Does "{k}" occur in s at position i?
MatchAt(s, i, k) ==
    /\ i + Len(k) + 1 <= Len(s)
    /\ SubSeq(s, i, i + Len(k) + 1) = Placeholder(k)

\* expand rewrites each {k} of s, k a key of match, by match[k]; any other
\* text, an unmatched {key} included, is kept literally.
RECURSIVE expandFrom(_, _, _)
expandFrom(match, s, i) ==
    IF i > Len(s) THEN <<>>
    ELSE LET ks == IF s[i] = "{" THEN {k \in DOMAIN match : MatchAt(s, i, k)} ELSE {}
         IN IF ks = {}
            THEN <<s[i]>> \o expandFrom(match, s, i + 1)
            ELSE LET k == CHOOSE k \in ks : \A k2 \in ks : Len(k2) <= Len(k)
                 IN match[k] \o expandFrom(match, s, i + Len(k) + 2)

expand(match, s) == expandFrom(match, s, 1)

\* Mutant: substitute in the whole command line, then split.
run1ArgsExpandFirst(cmdline, keyval) ==
    Fields(expand(keyvalMap(keyval), cmdline))

\* args := strings.Fields(cmdline); args[i] = expand(m, arg) for each i
expandEach(m, args) == [i \in 1..Len(args) |-> expand(m, args[i])]

run1Args(cmdline, keyval) == expandEach(keyvalMap(keyval), Fields(cmdline))

-----------------------------------------------------------------------------
(* Inputs the callers supply *)

Dirs == { <<"/","w">>, <<"w"," ","2">> }

Repos == { <<"r"," ","z">> }

Versions ==
    { <<"v","1">>,
      <<"s","h","a">>,
      <<"s","h","a",":">>,
      <<"s","h","a",":","a","b">> }

-----------------------------------------------------------------------------
(* The file system and the git binary, as far as the driver observes them *)

Absent == [state |-> "absent", meta |-> FALSE]

\* A complete work tree, with its .git entry.
Complete == [state |-> "checkout", meta |-> TRUE]

\* What a failed clone may leave behind in a directory that was absent.
PartialTrees ==
    { [state |-> "partial", meta |-> b] : b \in BOOLEAN }

\* os.Stat(path.Join(dst, v.meta)): nil, ENOENT, or another error
Stat(dst) ==
    IF ~access[dst] THEN "EACCES"
    ELSE IF tree[dst].meta THEN "nil"
    ELSE "ENOENT"

\* os.IsNotExist
IsNotExist(err) == err = "ENOENT"

\* Mutant: only a successful stat counts as existing.
existsOnlyOnSuccess(dst) == Stat(dst) = "nil"

exists(dst) ==
    LET err == Stat(dst)
    IN err = "nil" \/ ~IsNotExist(err)

IsClone(args) ==
    /\ Len(args) = 5
    /\ args[1] = S_clone
    /\ args[3] \in Dirs

IsCheckout(cwd, args) ==
    /\ Len(args) >= 2
    /\ args[1] = S_checkout
    /\ cwd \in Dirs

\* Whether the spawned git process can exit with status 0: clone needs a
\* directory that is not there yet, checkout needs a complete work tree.
GitCanSucceed(cwd, args) ==
    \/ IsClone(args) /\ tree[args[3]].state = "absent"
    \/ IsCheckout(cwd, args) /\ tree[cwd].state = "checkout"

\* The trees a spawned git process may leave, by its exit status.
GitOutcomes(cwd, args, ok) ==
    IF IsClone(args)
    THEN IF ok
         THEN { [tree EXCEPT ![args[3]] = Complete] }
         ELSE IF tree[args[3]].state = "absent"
              THEN {tree} \cup { [tree EXCEPT ![args[3]] = p] : p \in PartialTrees }
              ELSE {tree}
    ELSE IF IsCheckout(cwd, args) /\ ok
         THEN { [tree EXCEPT ![cwd] = Complete] }
         ELSE {tree}

-----------------------------------------------------------------------------
(* run1 and run *)

Nil == "nil"
ErrNotFound == "ErrNotFound"
ExitError == "ExitError"

\* Mutant: the process is started although LookPath failed.
run1IgnoringLookPath(v, dir, cmdline, keyval, verbose, found, ok) ==
    [ args    |-> run1Args(cmdline, keyval),
      spawned |-> TRUE,
      err     |-> IF ok THEN Nil ELSE ExitError,
      out     |-> IF ok THEN <<"buf">> ELSE <<>>,
      diag    |-> IF ~ok /\ verbose THEN "cmdline" ELSE "none" ]

\* found: exec.LookPath(v.cmd) succeeded; ok: cmd.Run() returned nil.
run1(v, dir, cmdline, keyval, verbose, found, ok) ==
    LET args == run1Args(cmdline, keyval)
    IN IF ~found
       THEN [args |-> args, spawned |-> FALSE, err |-> ErrNotFound,
             out |-> <<>>, diag |-> "missing"]
       ELSE IF ~ok
       THEN [args |-> args, spawned |-> TRUE, err |-> ExitError,
             out |-> <<>>, diag |-> IF verbose THEN "cmdline" ELSE "none"]
       ELSE [args |-> args, spawned |-> TRUE, err |-> Nil,
             out |-> <<"buf">>, diag |-> "none"]

\* run: run1 with verbose = true, output dropped
run(v, dir, cmdline, keyval, found, ok) ==
    run1(v, dir, cmdline, keyval, TRUE, found, ok)

\* One entry of log: what was handed to run1, what the environment answered
\* (found, ok) and what run1 made of it.
Entry(dir, cmdline, keyval, found, ok, r) ==
    [ dir |-> dir, cmdline |-> cmdline, keyval |-> keyval,
      found |-> found, ok |-> ok,
      args |-> r.args, spawned |-> r.spawned, err |-> r.err, diag |-> r.diag ]

\* The answers the environment may give to one command: LookPath fails, or
\* it succeeds and the process exits with some status.
EnvChoices(cwd, args) ==
    { [found |-> FALSE, ok |-> FALSE], [found |-> TRUE, ok |-> FALSE] }
    \cup (IF GitCanSucceed(cwd, args) THEN { [found |-> TRUE, ok |-> TRUE] } ELSE {})

\* The trees after a command: unchanged unless a process was spawned.
TreesAfter(cwd, r, ok) ==
    IF r.spawned THEN GitOutcomes(cwd, r.args, ok) ELSE {tree}

-----------------------------------------------------------------------------
(* create, checkout, exists *)

NoCall ==
    [op |-> "none", dir |-> <<>>, repo |-> <<>>, version |-> <<>>,
     tag |-> <<>>, commit |-> <<>>]

NoQuery == [op |-> "none", dir |-> <<>>, result |-> FALSE]

\* Mutant: the branch key is passed under the name "tag".
createKeyvalTagKey(dir, repo, tag) ==
    <<S_dir, dir, S_repo, repo, S_tag, tag>>

\* keyval of the first command of create
createKeyval(dir, repo, tag) ==
    <<S_dir, dir, S_repo, repo, S_branch, tag>>

\* Mutant: the checkout step follows a failed create step as well.
createContinuesAfterError(err, commit) == commit # <<>>

\* Mutant: the checkout step follows whether or not a commit was parsed.
createContinuesWithoutCommit(err, commit) == err = Nil

\* create goes on to its checkout step iff the first run returned nil and
\* commit != ""
createContinues(err, commit) == err = Nil /\ commit # <<>>

\* Mutant: checkout always moves to the tag.
checkoutPickAlwaysTag(tag, commit) ==
    [cmdline |-> vcsGit.downloadCmd, keyval |-> <<S_tag, tag>>]

\* Mutant: checkout always pins to the commit.
checkoutPickAlwaysCommit(tag, commit) ==
    [cmdline |-> vcsGit.checkoutCmd, keyval |-> <<S_version, commit>>]

\* The command checkout runs
checkoutPick(tag, commit) ==
    IF commit # <<>>
    THEN [cmdline |-> vcsGit.checkoutCmd, keyval |-> <<S_version, commit>>]
    ELSE [cmdline |-> vcsGit.downloadCmd, keyval |-> <<S_tag, tag>>]

\* Mutant: the error of the command is dropped.
runErrDropped(r) == Nil

\* run returns the error of run1
runErr(r) == r.err

\* create, up to the return of its first command
create(dir, repo, version) ==
    /\ pc \in {"idle", "returned"}
    /\ LET pv == parseVersion(version)
           kv == createKeyval(dir, repo, pv.tag)
       IN \E e \in EnvChoices(S_dot, run1Args(vcsGit.createCmd, kv)) :
          \E r \in {run(vcsGit, S_dot, vcsGit.createCmd, kv, e.found, e.ok)} :
               /\ call' = [op |-> "create", dir |-> dir, repo |-> repo,
                           version |-> version, tag |-> pv.tag, commit |-> pv.commit]
               /\ log' = <<Entry(S_dot, vcsGit.createCmd, kv, e.found, e.ok, r)>>
               /\ tree' \in TreesAfter(S_dot, r, e.ok)
               /\ IF createContinues(runErr(r), pv.commit)
                  THEN pc' = "create_checkout" /\ ret' = Nil
                  ELSE pc' = "returned" /\ ret' = runErr(r)
    /\ existsRes' = NoQuery
    /\ UNCHANGED <<access, input, output>>

\* create, its second command: return v.run(dir, v.checkoutCmd, "version", commit)
create_checkout ==
    /\ pc = "create_checkout"
    /\ LET kv == <<S_version, call.commit>>
       IN \E e \in EnvChoices(call.dir, run1Args(vcsGit.checkoutCmd, kv)) :
          \E r \in {run(vcsGit, call.dir, vcsGit.checkoutCmd, kv, e.found, e.ok)} :
               /\ log' = Append(log, Entry(call.dir, vcsGit.checkoutCmd, kv, e.found, e.ok, r))
               /\ tree' \in TreesAfter(call.dir, r, e.ok)
               /\ ret' = runErr(r)
    /\ pc' = "returned"
    /\ existsRes' = NoQuery
    /\ UNCHANGED <<call, access, input, output>>

checkout(dir, version) ==
    /\ pc \in {"idle", "returned"}
    /\ LET pv == parseVersion(version)
           c == checkoutPick(pv.tag, pv.commit)
       IN \E e \in EnvChoices(dir, run1Args(c.cmdline, c.keyval)) :
          \E r \in {run(vcsGit, dir, c.cmdline, c.keyval, e.found, e.ok)} :
               /\ call' = [op |-> "checkout", dir |-> dir, repo |-> <<>>,
                           version |-> version, tag |-> pv.tag, commit |-> pv.commit]
               /\ log' = <<Entry(dir, c.cmdline, c.keyval, e.found, e.ok, r)>>
               /\ tree' \in TreesAfter(dir, r, e.ok)
               /\ ret' = runErr(r)
    /\ pc' = "returned"
    /\ existsRes' = NoQuery
    /\ UNCHANGED <<access, input, output>>

existsQuery(dst) ==
    /\ pc \in {"idle", "returned"}
    /\ existsRes' = [op |-> "exists", dir |-> dst, result |-> exists(dst)]
    /\ UNCHANGED <<pc, call, log, ret, tree, access, input, output>>

Init ==
    /\ pc = "idle"
    /\ call = NoCall
    /\ log = <<>>
    /\ ret = Nil
    /\ tree = [d \in Dirs |-> Absent]
    /\ access \in [Dirs -> BOOLEAN]
    /\ existsRes = NoQuery
    /\ input = <<>>
    /\ output = <<>>

Next ==
    \/ \E dir \in Dirs, repo \in Repos, version \in Versions : create(dir, repo, version)
    \/ create_checkout
    \/ \E dir \in Dirs, version \in Versions : checkout(dir, version)
    \/ \E dst \in Dirs : existsQuery(dst)

Spec == Init /\ [][Next]_vars

-----------------------------------------------------------------------------
(* parseVersion and the argument construction of run1 on arbitrary strings *)

MaxVersionLen == 6
MaxTemplateLen == 5
MaxValueLen == 2

\* All strings over alphabet of length at most n.
Strings(alphabet, n) == UNION { [1..k -> alphabet] : k \in 0..n }

VersionAlphabet == {"s", "h", "a", ":", "b"}
TemplateAlphabet == {" ", "{", "k", "}"}
ValueAlphabet == {"b", " "}
S_k == <<"k">>

Quiet ==
    /\ call = NoCall
    /\ log = <<>>
    /\ ret = Nil
    /\ tree = [d \in Dirs |-> Absent]
    /\ access = [d \in Dirs |-> TRUE]
    /\ existsRes = NoQuery
    /\ output = <<>>

InitParse ==
    /\ pc = "start"
    /\ input \in Strings(VersionAlphabet, MaxVersionLen)
    /\ Quiet

parseVersionStep ==
    /\ pc = "start"
    /\ output' = <<parseVersion(input)>>
    /\ pc' = "done"
    /\ UNCHANGED <<call, log, ret, tree, access, existsRes, input>>

SpecParse == InitParse /\ [][parseVersionStep]_vars

InitArgs ==
    /\ pc = "start"
    /\ input \in
         [ cmdline : Strings(TemplateAlphabet, MaxTemplateLen),
           keyval  : {<<>>} \cup { <<S_k, val>> : val \in Strings(ValueAlphabet, MaxValueLen) } ]
    /\ Quiet

run1ArgsStep ==
    /\ pc = "start"
    /\ output' = <<run1Args(input.cmdline, input.keyval)>>
    /\ pc' = "done"
    /\ UNCHANGED <<call, log, ret, tree, access, existsRes, input>>

SpecArgs == InitArgs /\ [][run1ArgsStep]_vars

-----------------------------------------------------------------------------
(* Properties *)

\* v is "sha:" followed by some text (possibly none).
StartsWithSha(v) ==
    /\ Len(v) >= 4
    /\ v[1] = "s" /\ v[2] = "h" /\ v[3] = "a" /\ v[4] = ":"

\* The command succeeded: the tool was found and exited with status 0.
Succeeded(e) == e.found /\ e.ok

\* The keys written between braces in s.
Braced(s) ==
    { SubSeq(s, i + 1, j - 1) :
        <<i, j>> \in { p \in (1..Len(s)) \X (1..Len(s)) :
                         /\ p[1] < p[2]
                         /\ s[p[1]] = "{"
                         /\ s[p[2]] = "}"
                         /\ \A n \in (p[1] + 1)..(p[2] - 1) : s[n] \notin {"{", "}"} } }

\* The keys of a flat key/value sequence.
KeysOf(keyval) == { keyval[i] : i \in { n \in 1..Len(keyval) : n % 2 = 1 } }

\* C1: in create(dir, repo, "sha:<commit>") the first command is the create
\* template in "." with dir, repo and branch = "master"; the checkout-to-commit
\* template is run only as the second command, only after the first succeeded,
\* in dir and with version = <commit>; and once the first command has
\* succeeded for a non-empty <commit>, the call does not return without it.
C1_CreateShaOrder ==
    (call.op = "create" /\ StartsWithSha(call.version)) =>
        /\ Len(log) \in {1, 2}
        /\ log[1].dir = S_dot
        /\ log[1].cmdline = vcsGit.createCmd
        /\ log[1].keyval = <<S_dir, call.dir, S_repo, call.repo, S_branch, S_master>>
        /\ \A i \in 1..Len(log) :
               log[i].cmdline = vcsGit.checkoutCmd =>
                   /\ i = 2
                   /\ Succeeded(log[1])
                   /\ log[i].dir = call.dir
                   /\ Len(log[i].keyval) = 2
                   /\ log[i].keyval[1] = S_version
                   /\ S_sha \o log[i].keyval[2] = call.version
        /\ Len(log) = 2 => log[2].cmdline = vcsGit.checkoutCmd
        /\ (pc = "returned" /\ Succeeded(log[1]) /\ Len(call.version) > 4) =>
               Len(log) = 2
        /\ (pc = "create_checkout") => (Succeeded(log[1]) /\ Len(log) = 1)

C1_Witness ==
    /\ call.op = "create"
    /\ call.version = S_sha \o <<"a","b">>
    /\ pc = "returned"
    /\ Len(log) = 2
    /\ Succeeded(log[2])

\* C2: in create(dir, repo, version) with version not starting with "sha:",
\* exactly one command is run, the create template with dir, repo and
\* branch = version, and the checkout-to-commit template is never run,
\* whether that command succeeds or fails.
C2_CreateTagOnly ==
    (call.op = "create" /\ ~StartsWithSha(call.version)) =>
        /\ pc = "returned"
        /\ Len(log) = 1
        /\ log[1].cmdline = vcsGit.createCmd
        /\ log[1].keyval = <<S_dir, call.dir, S_repo, call.repo, S_branch, call.version>>
        /\ \A i \in 1..Len(log) : log[i].cmdline # vcsGit.checkoutCmd

C2_Witness ==
    /\ call.op = "create"
    /\ call.version = <<"v","1">>
    /\ pc = "returned"
    /\ Succeeded(log[1])
    /\ ret = Nil

\* C3 as stated: checkout(dir, version) with version starting with "sha:" runs
\* only the checkout-to-commit template, in dir, with version bound to the text
\* after the prefix, and never the update-to-tag template.
C3_CheckoutShaAnyRest ==
    (call.op = "checkout" /\ StartsWithSha(call.version)) =>
        /\ Len(log) = 1
        /\ log[1].cmdline = vcsGit.checkoutCmd
        /\ log[1].cmdline # vcsGit.downloadCmd
        /\ log[1].dir = call.dir
        /\ Len(log[1].keyval) = 2
        /\ log[1].keyval[1] = S_version
        /\ S_sha \o log[1].keyval[2] = call.version

\* C3 amended: the same for a version that starts with "sha:" and has at
\* least one character after the prefix.
C3_CheckoutShaNonEmpty ==
    (call.op = "checkout" /\ StartsWithSha(call.version) /\ Len(call.version) > 4) =>
        /\ Len(log) = 1
        /\ log[1].cmdline = vcsGit.checkoutCmd
        /\ log[1].cmdline # vcsGit.downloadCmd
        /\ log[1].dir = call.dir
        /\ Len(log[1].keyval) = 2
        /\ log[1].keyval[1] = S_version
        /\ S_sha \o log[1].keyval[2] = call.version

C3_Witness ==
    /\ call.op = "checkout"
    /\ call.version = S_sha \o <<"a","b">>
    /\ Len(log) = 1
    /\ log[1].args = <<S_checkout, <<"a","b">>>>
    /\ Succeeded(log[1])

\* C4: checkout(dir, version) with version not starting with "sha:" runs
\* exactly one command, the update-to-tag template in dir with tag = version,
\* and neither the checkout-to-commit nor the create template.
C4_CheckoutTag ==
    (call.op = "checkout" /\ ~StartsWithSha(call.version)) =>
        /\ Len(log) = 1
        /\ log[1].cmdline = vcsGit.downloadCmd
        /\ log[1].cmdline \notin {vcsGit.checkoutCmd, vcsGit.createCmd}
        /\ log[1].dir = call.dir
        /\ log[1].keyval = <<S_tag, call.version>>

C4_Witness ==
    /\ call.op = "checkout"
    /\ call.version = <<"v","1">>
    /\ Len(log) = 1
    /\ log[1].args = <<S_checkout, <<"-","f">>, <<"t","a","g","s","/","v","1">>>>
    /\ Succeeded(log[1])

\* C5: a step of create or checkout in which the tool cannot be resolved
\* spawns no process, leaves every directory as it was, and makes the call
\* return an error at once (so create does not go on to its checkout step).
C5_ToolNotFound ==
    [][ (Len(log') > 0 /\ ~log'[Len(log')].found) =>
            /\ tree' = tree
            /\ ~log'[Len(log')].spawned
            /\ \A i \in 1..Len(log') : ~log'[i].found => i = Len(log')
            /\ pc' = "returned"
            /\ ret' = ErrNotFound
            /\ ret' # Nil ]_vars

C5_Witness ==
    /\ call.op = "create"
    /\ call.commit # <<>>
    /\ pc = "returned"
    /\ Len(log) = 1
    /\ ~log[1].found
    /\ ret = ErrNotFound

\* C6: a failed command is the last of its call and its error is what the
\* call returns; create runs each of its two templates at most once and does
\* not run the second after the first failed; checkout runs one command.
C6_FailureReturnedNoRetry ==
    /\ \A i \in 1..Len(log) :
           ~Succeeded(log[i]) =>
               /\ i = Len(log)
               /\ pc = "returned"
               /\ ret # Nil
               /\ ret = (IF log[i].found THEN ExitError ELSE ErrNotFound)
    /\ call.op = "create" =>
           /\ Cardinality({i \in 1..Len(log) : log[i].cmdline = vcsGit.createCmd}) = 1
           /\ Cardinality({i \in 1..Len(log) : log[i].cmdline = vcsGit.checkoutCmd}) <= 1
           /\ Len(log) <= 2
           /\ (~Succeeded(log[1])) => Len(log) = 1
    /\ call.op = "checkout" => Len(log) = 1

C6_Witness ==
    /\ call.op = "create"
    /\ call.commit # <<>>
    /\ pc = "returned"
    /\ Len(log) = 1
    /\ log[1].found /\ ~log[1].ok
    /\ ret = ExitError

\* C7: parseVersion accepts every string v: if v is "sha:" followed by c it
\* returns tag "master" and commit c, otherwise tag v and the empty commit.
C7_ParseVersion ==
    /\ pc = "start" => ENABLED parseVersionStep
    /\ pc = "done" =>
          /\ Len(output) = 1
          /\ IF StartsWithSha(input)
             THEN /\ output[1].tag = S_master
                  /\ S_sha \o output[1].commit = input
                  /\ Len(output[1].commit) = Len(input) - 4
             ELSE /\ output[1].tag = input
                  /\ output[1].commit = <<>>

C7_Witness ==
    /\ pc = "done"
    /\ input = S_sha \o <<"a","b">>
    /\ output[1].commit = <<"a","b">>

\* C8: exists(dir) is a boolean; it is false exactly when the stat of the
\* marker entry cleanly reports that the entry is not there (the directory can
\* be read and holds no marker), and true when the marker is there and when
\* the stat fails for another reason.
C8_Exists ==
    existsRes.op = "exists" =>
        LET d == existsRes.dir
        IN /\ existsRes.result \in BOOLEAN
           /\ existsRes.result = FALSE <=> (access[d] /\ ~tree[d].meta)
           /\ (access[d] /\ tree[d].meta) => existsRes.result = TRUE
           /\ ~access[d] => existsRes.result = TRUE

C8_Witness ==
    /\ existsRes.op = "exists"
    /\ ~access[existsRes.dir]
    /\ ~tree[existsRes.dir].meta
    /\ existsRes.result = TRUE

\* The number of maximal runs of non-blank characters in s.
NumTokens(s) ==
    Cardinality({ i \in 1..Len(s) : s[i] # " " /\ (i = 1 \/ s[i - 1] = " ") })

\* C9: the argument list has exactly as many arguments as the template has
\* whitespace-separated tokens, whatever the substituted values contain.
C9_TokenIsolation ==
    pc = "done" => Len(output[1]) = NumTokens(input.cmdline)

C9_Witness ==
    /\ pc = "done"
    /\ input.cmdline = <<"k", " ", "{", "k", "}">>
    /\ input.keyval = <<S_k, <<"b", " ">>>>
    /\ output[1] = << <<"k">>, <<"b", " ">> >>

\* C10: every command create or checkout hands to run1 has a key/value
\* sequence of even length whose keys cover every {key} of its template
\* (dir, repo, branch for create; tag for update-to-tag; version for
\* checkout-to-commit), and no brace of the template is left in the arguments.
C10_WellFormedCommands ==
    \A i \in 1..Len(log) :
        LET e == log[i]
        IN /\ Len(e.keyval) % 2 = 0
           /\ e.cmdline \in {vcsGit.createCmd, vcsGit.downloadCmd, vcsGit.checkoutCmd}
           /\ e.cmdline = vcsGit.createCmd => Braced(e.cmdline) = {S_dir, S_repo, S_branch}
           /\ e.cmdline = vcsGit.downloadCmd => Braced(e.cmdline) = {S_tag}
           /\ e.cmdline = vcsGit.checkoutCmd => Braced(e.cmdline) = {S_version}
           /\ Braced(e.cmdline) \subseteq KeysOf(e.keyval)
           /\ \A n \in 1..Len(e.args) :
                  \A c \in 1..Len(e.args[n]) : e.args[n][c] \notin {"{", "}"}

C10_Witness ==
    /\ call.op = "create"
    /\ Len(log) = 2
    /\ log[1].args = <<S_clone, <<"r"," ","z">>, <<"w"," ","2">>, <<"-","b">>, S_master>>
    /\ log[2].args = <<S_checkout, <<"a","b">>>>

====
